---------------------------- MODULE Spec2Model ----------------------------
(***************************************************************************)
(* Model of src/statistics_calculator.c: calculate_mean, compare,          *)
(* calculate_median, calculate_mode and free_mode_result, driven by a      *)
(* caller that runs the three calculators in the order print_statistics    *)
(* runs them, MaxRounds times over the same array.                         *)
(*                                                                         *)
(* int is IntBits wide (two's complement).  What the C standard leaves to  *)
(* the build is chosen in Init and then fixed for the whole behaviour:     *)
(*   longBits  the width of long (as wide as int on ILP32/LLP64 builds,    *)
(*             twice as wide on LP64 builds);                              *)
(*   ub        what signed overflow does: "wrap" (two's complement         *)
(*             wrap-around) or "trap" (-ftrapv, a trapping sanitizer: the  *)
(*             process is aborted);                                        *)
(*   qs        what the C library's qsort makes of the array with the      *)
(*             comparator compare (QsortOutcomes).                         *)
(* A double is kept as an exact quotient [num, den]; floating-point        *)
(* rounding is not modelled.                                               *)
(***************************************************************************)
EXTENDS Integers, Sequences, FiniteSets, TLC

\* ------------------------------------------------------------------ bounds
IntBits == 4
MaxSize == 3
MaxRounds == 2

\* --------------------------------------------------------------- int, long
Pow2(n) == 2 ^ n

IntMin == -Pow2(IntBits - 1)
IntMax == Pow2(IntBits - 1) - 1

\* The element values the samples are drawn from: the two ends of int and
\* two small values.
Values == {IntMin, 0, 1, IntMax}

Samples == UNION {[1..n -> Values] : n \in 0..MaxSize}

LongBitsChoices == {IntBits, 2 * IntBits}
OverflowChoices == {"wrap", "trap"}

\* A machine integer of the given width, or a trap.
Val(v) == [trap |-> FALSE, val |-> v]
Trapped == [trap |-> TRUE, val |-> 0]

InRange(x, bits) == -Pow2(bits - 1) <= x /\ x <= Pow2(bits - 1) - 1
Wrap(x, bits) == ((x + Pow2(bits - 1)) % Pow2(bits)) - Pow2(bits - 1)

\* The result of a signed operation whose mathematical value is x.
Signed(x, bits, mode) ==
    IF InRange(x, bits) THEN Val(x)
    ELSE IF mode = "wrap" THEN Val(Wrap(x, bits))
    ELSE Trapped

\* ----------------------------------------------------------- calculate_mean
RECURSIVE MeanLoop(_, _, _, _, _)
MeanLoop(a, i, sum, bits, mode) ==
    IF i >= Len(a) THEN Val(sum)
    ELSE LET s == Signed(sum + a[i + 1], bits, mode)
         IN  IF s.trap THEN Trapped ELSE MeanLoop(a, i + 1, s.val, bits, mode)

\* The accumulator `sum` after the loop (or a trap).
MeanSum(a, bits, mode) == MeanLoop(a, 0, 0, bits, mode)

Zero == [num |-> 0, den |-> 1]

calculate_mean(a, bits, mode) ==
    IF Len(a) = 0 THEN [trap |-> FALSE, val |-> Zero]
    ELSE LET s == MeanSum(a, bits, mode)
         IN  IF s.trap THEN [trap |-> TRUE, val |-> Zero]
             ELSE [trap |-> FALSE, val |-> [num |-> s.val, den |-> Len(a)]]

\* ------------------------------------------------------------------ compare
compare(a, b, mode) == Signed(a - b, IntBits, mode)

\* -------------------------------------------------------------------- qsort
PermSeqs(a) ==
    {[k \in 1..Len(a) |-> a[f[k]]] : f \in Permutations(1..Len(a))}

\* compare(x, y) returned without a trap and did not say x > y.
NotAfter(x, y, mode) ==
    LET c == compare(x, y, mode) IN ~c.trap /\ c.val <= 0

\* What qsort(base, n, sizeof(int), compare) can leave in base: a
\* rearrangement of the elements in which compare puts no element after its
\* right neighbour; or, when overflow traps and compare overflows on some
\* pair of the elements, a trap.  Where compare does not overflow on the
\* elements this is the ascending arrangement alone.
QsortOutcomes(a, mode) ==
    LET ordered == {p \in PermSeqs(a) :
                       \A k \in 1..(Len(a) - 1) : NotAfter(p[k], p[k + 1], mode)}
        traps == IF \E i, j \in 1..Len(a) : i # j /\ compare(a[i], a[j], mode).trap
                 THEN {[trap |-> TRUE, seq |-> a]} ELSE {}
    IN  {[trap |-> FALSE, seq |-> p] : p \in ordered} \cup traps

\* --------------------------------------------------------- calculate_median
\* Lines 92-98: the median of the sorted copy s, size >= 1.
MedianOf(s, mode) ==
    LET size == Len(s) IN
    IF size % 2 = 0
    THEN LET sum == Signed(s[(size \div 2 - 1) + 1] + s[(size \div 2) + 1],
                           IntBits, mode)
         IN  IF sum.trap THEN [trap |-> TRUE, val |-> Zero]
             ELSE [trap |-> FALSE, val |-> [num |-> sum.val, den |-> 2]]
    ELSE [trap |-> FALSE, val |-> [num |-> s[(size \div 2) + 1], den |-> 1]]


\* Mutant of CopyAndSort: qsort is run on the caller's array.
SortInPlace(a, q) == [arr |-> q.seq, sorted_arr |-> q.seq]

\* Lines 84-87 and 153-154: memcpy(sorted_arr, arr, ...), then qsort on
\* sorted_arr with outcome q: what the two arrays hold afterwards.
CopyAndSort(a, q) == [arr |-> a, sorted_arr |-> q.seq]

\* ----------------------------------------------------------- calculate_mode
\* ModeResult result = {NULL, 0, 0};  `init` is the set of (0-based)
\* positions of modes that have been written.
ResultZero ==
    [modes |-> "NULL", data |-> <<>>, init |-> {}, count |-> 0, frequency |-> 0]

\* Lines 163-174: the body of the first loop on reading the value v.
Pass1Body(v, cv, cf, mf) ==
    IF v = cv
    THEN [current_value |-> cv, current_frequency |-> cf + 1, max_frequency |-> mf]
    ELSE [current_value |-> v, current_frequency |-> 1,
          max_frequency |-> IF cf > mf THEN cf ELSE mf]

\* Lines 177-179: the check of the final run.
Pass1Final(cf, mf) == IF cf > mf THEN cf ELSE mf

\* Mutant of Collects: `>` written for `==`.
CollectsGreater(cf, mf) == cf > mf

\* Lines 198-200 and 206-208: whether the run that just ended is collected.
Collects(cf, mf) == cf = mf

\* Mutant of Store: temp_modes[++mode_count] = current_value.
StorePreIncrement(buf, written, mc, v, size) ==
    IF 0 <= mc + 1 /\ mc + 1 < size
    THEN [buf |-> [buf EXCEPT ![mc + 2] = v], init |-> written \cup {mc + 1},
          mode_count |-> mc + 1, oob |-> FALSE]
    ELSE [buf |-> buf, init |-> written, mode_count |-> mc + 1, oob |-> TRUE]

\* temp_modes[mode_count++] = current_value on a buffer of `size` elements:
\* the buffer, the written positions, mode_count, and whether the write fell
\* outside the buffer.
Store(buf, written, mc, v, size) ==
    IF 0 <= mc /\ mc < size
    THEN [buf |-> [buf EXCEPT ![mc + 1] = v], init |-> written \cup {mc},
          mode_count |-> mc + 1, oob |-> FALSE]
    ELSE [buf |-> buf, init |-> written, mode_count |-> mc + 1, oob |-> TRUE]

\* --------------------------------------------------------------------- heap
BufNames == {"sorted_arr", "temp_modes", "result.modes"}

NoCounts == [b \in BufNames |-> 0]

\* live: the allocations not yet freed; allocs, frees: the malloc and free
\* calls on each buffer since the current calculator was entered.
HeapEmpty == [live |-> {}, allocs |-> NoCounts, frees |-> NoCounts]

Enter(h) == [h EXCEPT !.allocs = NoCounts, !.frees = NoCounts]

Malloc(h, b) ==
    [h EXCEPT !.live = @ \cup {b}, !.allocs[b] = @ + 1]

Free(h, b) ==
    [h EXCEPT !.live = @ \ {b}, !.frees[b] = @ + 1]

\* -------------------------------------------------------------------- state
VARIABLES
    arr,                \* the caller's array
    given,              \* the array as the caller first passed it
    longBits, ub, qs,   \* the build (see the module comment)
    pc, round,          \* the caller's position and its round
    mean, median,       \* the values the calculators last returned
    result,             \* the caller's ModeResult
    first,              \* what the calculators returned in round 1
    allocFailed,        \* whether a malloc failed in the last call of each
    sorted_arr, temp_modes, temp_init, i, current_value,
    current_frequency, max_frequency, mode_count, oob,
    heap

build == <<given, longBits, ub, qs>>
returned == <<mean, median, result, first, allocFailed>>
locals == <<sorted_arr, temp_modes, temp_init, i, current_value,
            current_frequency, max_frequency, mode_count, oob>>
vars == <<arr, build, pc, round, returned, locals, heap>>

size == Len(arr)

NoFailure == [median |-> FALSE, mode |-> FALSE]

Init ==
    /\ given \in Samples
    /\ arr = given
    /\ longBits \in LongBitsChoices
    /\ ub \in OverflowChoices
    /\ qs \in QsortOutcomes(given, ub)
    /\ pc = "mean"
    /\ round = 1
    /\ mean = Zero
    /\ median = Zero
    /\ result = ResultZero
    /\ first = [mean |-> Zero, median |-> Zero, result |-> ResultZero,
                allocFailed |-> NoFailure]
    /\ allocFailed = NoFailure
    /\ sorted_arr = <<>>
    /\ temp_modes = <<>>
    /\ temp_init = {}
    /\ i = 0
    /\ current_value = 0
    /\ current_frequency = 0
    /\ max_frequency = 0
    /\ mode_count = 0
    /\ oob = FALSE
    /\ heap = HeapEmpty

\* The locals of a calculator are gone when it returns.
LocalsGone ==
    /\ sorted_arr' = <<>>
    /\ temp_modes' = <<>>
    /\ temp_init' = {}
    /\ i' = 0
    /\ current_value' = 0
    /\ current_frequency' = 0
    /\ max_frequency' = 0
    /\ mode_count' = 0
    /\ oob' = FALSE

Abort ==
    /\ pc' = "aborted"
    /\ UNCHANGED <<arr, build, round, returned, locals>>

\* double mean = calculate_mean(arr, size);
CallMean ==
    /\ pc = "mean"
    /\ LET r == calculate_mean(arr, longBits, ub) IN
       IF r.trap
       THEN Abort /\ UNCHANGED heap
       ELSE /\ mean' = r.val
            /\ first' = IF round = 1 THEN [first EXCEPT !.mean = r.val] ELSE first
            /\ pc' = "median"
            /\ UNCHANGED <<arr, build, round, median, result, allocFailed,
                           locals, heap>>

\* calculate_median returns v to the caller.
MedianReturns(v, failed) ==
    /\ median' = v
    /\ allocFailed' = [allocFailed EXCEPT !.median = failed]
    /\ first' = IF round = 1
                THEN [first EXCEPT !.median = v, !.allocFailed.median = failed]
                ELSE first
    /\ pc' = "mode"
    /\ LocalsGone
    /\ UNCHANGED <<build, round, mean, result>>

\* calculate_median, lines 70-87: up to the return of qsort.
MedianEnter ==
    /\ pc = "median"
    /\ IF size = 0
       THEN MedianReturns(Zero, FALSE) /\ heap' = Enter(heap) /\ UNCHANGED arr
       ELSE \E ok \in BOOLEAN :
              IF ~ok
              THEN /\ MedianReturns(Zero, TRUE)
                   /\ heap' = Enter(heap)
                   /\ UNCHANGED arr
              ELSE /\ heap' = Malloc(Enter(heap), "sorted_arr")
                   /\ IF qs.trap
                      THEN Abort
                      ELSE LET m == CopyAndSort(arr, qs) IN
                           /\ arr' = m.arr
                           /\ sorted_arr' = m.sorted_arr
                           /\ pc' = "median_select"
                           /\ UNCHANGED <<build, round, returned, temp_modes,
                                          temp_init, i, current_value,
                                          current_frequency, max_frequency,
                                          mode_count, oob>>

\* calculate_median, lines 89-102.
MedianSelect ==
    /\ pc = "median_select"
    /\ LET m == MedianOf(sorted_arr, ub) IN
       IF m.trap
       THEN Abort /\ UNCHANGED heap
       ELSE /\ MedianReturns(m.val, FALSE)
            /\ heap' = Free(heap, "sorted_arr")
            /\ UNCHANGED arr

\* calculate_mode returns r to the caller.
ModeReturns(r, failed) ==
    /\ result' = r
    /\ allocFailed' = [allocFailed EXCEPT !.mode = failed]
    /\ first' = IF round = 1
                THEN [first EXCEPT !.result = r, !.allocFailed.mode = failed]
                ELSE first
    /\ pc' = "free_result"
    /\ LocalsGone
    /\ UNCHANGED <<arr, build, round, mean, median>>

\* calculate_mode, lines 140-159: up to the start of the first loop.
ModeEnter ==
    /\ pc = "mode"
    /\ IF size = 0
       THEN ModeReturns(ResultZero, FALSE) /\ heap' = Enter(heap)
       ELSE \E ok \in BOOLEAN :
              IF ~ok
              THEN ModeReturns(ResultZero, TRUE) /\ heap' = Enter(heap)
              ELSE /\ heap' = Malloc(Enter(heap), "sorted_arr")
                   /\ IF qs.trap
                      THEN Abort
                      ELSE LET m == CopyAndSort(arr, qs) IN
                           /\ arr' = m.arr
                           /\ sorted_arr' = m.sorted_arr
                           /\ max_frequency' = 1
                           /\ current_frequency' = 1
                           /\ current_value' = m.sorted_arr[1]
                           /\ i' = 1
                           /\ pc' = "pass1"
                           /\ UNCHANGED <<build, round, returned, temp_modes,
                                          temp_init, mode_count, oob>>

\* One iteration of the first loop, lines 162-175.
Pass1Step ==
    /\ pc = "pass1"
    /\ i < size
    /\ LET n == Pass1Body(sorted_arr[i + 1], current_value, current_frequency,
                          max_frequency) IN
       /\ current_value' = n.current_value
       /\ current_frequency' = n.current_frequency
       /\ max_frequency' = n.max_frequency
    /\ i' = i + 1
    /\ UNCHANGED <<arr, build, pc, round, returned, sorted_arr, temp_modes,
                   temp_init, mode_count, oob, heap>>

\* The end of the first loop and the check of the final run, lines 176-179.
Pass1End ==
    /\ pc = "pass1"
    /\ i >= size
    /\ max_frequency' = Pass1Final(current_frequency, max_frequency)
    /\ pc' = "alloc_temp"
    /\ UNCHANGED <<arr, build, round, returned, sorted_arr, temp_modes,
                   temp_init, i, current_value, current_frequency, mode_count,
                   oob, heap>>

\* Mutant of TempFailed: the return without free(sorted_arr).
TempFailedLeak(h) == h

\* The heap when malloc of temp_modes has failed, lines 183-186.
TempFailed(h) == Free(h, "sorted_arr")

\* Lines 182-190: the allocation of temp_modes and the start of pass 2.
AllocTemp ==
    /\ pc = "alloc_temp"
    /\ \E ok \in BOOLEAN :
         IF ~ok
         THEN ModeReturns(ResultZero, TRUE) /\ heap' = TempFailed(heap)
         ELSE /\ heap' = Malloc(heap, "temp_modes")
              /\ temp_modes' = [k \in 1..size |-> 0]
              /\ temp_init' = {}
              /\ mode_count' = 0
              /\ current_frequency' = 1
              /\ current_value' = sorted_arr[1]
              /\ i' = 1
              /\ pc' = "pass2"
              /\ UNCHANGED <<arr, build, round, returned, sorted_arr,
                             max_frequency, oob>>

\* Whether the next step of pass 2 stores into temp_modes.
Pass2Stores ==
    /\ pc = "pass2"
    /\ IF i < size
       THEN sorted_arr[i + 1] # current_value
            /\ Collects(current_frequency, max_frequency)
       ELSE Collects(current_frequency, max_frequency)

\* One iteration of the second loop, lines 193-204.
Pass2Step ==
    /\ pc = "pass2"
    /\ i < size
    /\ IF sorted_arr[i + 1] = current_value
       THEN /\ current_frequency' = current_frequency + 1
            /\ UNCHANGED <<current_value, temp_modes, temp_init, mode_count, oob>>
       ELSE /\ IF Collects(current_frequency, max_frequency)
               THEN LET w == Store(temp_modes, temp_init, mode_count,
                                   current_value, size) IN
                    /\ temp_modes' = w.buf
                    /\ temp_init' = w.init
                    /\ mode_count' = w.mode_count
                    /\ oob' = (oob \/ w.oob)
               ELSE UNCHANGED <<temp_modes, temp_init, mode_count, oob>>
            /\ current_value' = sorted_arr[i + 1]
            /\ current_frequency' = 1
    /\ i' = i + 1
    /\ UNCHANGED <<arr, build, pc, round, returned, sorted_arr, max_frequency,
                   heap>>

\* The end of the second loop and the check of the final run, lines 205-208.
Pass2End ==
    /\ pc = "pass2"
    /\ i >= size
    /\ IF Collects(current_frequency, max_frequency)
       THEN LET w == Store(temp_modes, temp_init, mode_count, current_value,
                           size) IN
            /\ temp_modes' = w.buf
            /\ temp_init' = w.init
            /\ mode_count' = w.mode_count
            /\ oob' = (oob \/ w.oob)
       ELSE UNCHANGED <<temp_modes, temp_init, mode_count, oob>>
    /\ pc' = "package"
    /\ UNCHANGED <<arr, build, round, returned, sorted_arr, i, current_value,
                   current_frequency, max_frequency, heap>>

\* Lines 211-216: the result once result.modes is allocated: memcpy of
\* mode_count elements of temp_modes, count and frequency.
Package(buf, written, mc, mf) ==
    [modes |-> "heap", data |-> SubSeq(buf, 1, mc),
     init |-> {k \in written : k < mc}, count |-> mc, frequency |-> mf]

\* Lines 219-220: the two frees before the return.
Cleanup(h) == Free(Free(h, "sorted_arr"), "temp_modes")

\* Lines 210-221: the result array, the cleanup and the return.
PackageResult ==
    /\ pc = "package"
    /\ \E ok \in BOOLEAN :
         IF ok
         THEN /\ ModeReturns(Package(temp_modes, temp_init, mode_count,
                                     max_frequency), FALSE)
              /\ heap' = Cleanup(Malloc(heap, "result.modes"))
         ELSE /\ ModeReturns(ResultZero, TRUE)
              /\ heap' = Cleanup(heap)

\* free_mode_result, lines 231-239: the heap and the structure afterwards.
free_mode_result(h, r) ==
    [heap |-> IF r.modes # "NULL" THEN Free(h, "result.modes") ELSE h,
     result |-> ResultZero]

\* print_statistics line 306, then the caller's next round on the same array.
FreeModeResult ==
    /\ pc = "free_result"
    /\ LET f == free_mode_result(heap, result) IN
       /\ heap' = f.heap
       /\ result' = f.result
    /\ IF round < MaxRounds
       THEN pc' = "mean" /\ round' = round + 1
       ELSE pc' = "done" /\ round' = round
    /\ UNCHANGED <<arr, build, mean, median, first, allocFailed, locals>>

Next ==
    \/ CallMean
    \/ MedianEnter
    \/ MedianSelect
    \/ ModeEnter
    \/ Pass1Step
    \/ Pass1End
    \/ AllocTemp
    \/ Pass2Step
    \/ Pass2End
    \/ PackageResult
    \/ FreeModeResult

Spec == Init /\ [][Next]_vars

\* ------------------------------------------------------- reference values
Range(a) == {a[k] : k \in DOMAIN a}

Multiplicity(v, a) == Cardinality({k \in DOMAIN a : a[k] = v})

\* The largest multiplicity of a value of the non-empty sample a.
MaxMultiplicity(a) ==
    CHOOSE m \in 1..Len(a) :
        /\ \E v \in Range(a) : Multiplicity(v, a) = m
        /\ \A v \in Range(a) : Multiplicity(v, a) <= m

TrueModes(a) == {v \in Range(a) : Multiplicity(v, a) = MaxMultiplicity(a)}

IsAscending(s) == \A k \in 1..(Len(s) - 1) : s[k] <= s[k + 1]

IsStrictlyAscending(s) == \A k \in 1..(Len(s) - 1) : s[k] < s[k + 1]

\* The sample in ascending numeric order.
Ascending(a) == CHOOSE p \in PermSeqs(a) : IsAscending(p)

RECURSIVE TrueSum(_)
TrueSum(a) == IF a = <<>> THEN 0 ELSE Head(a) + TrueSum(Tail(a))

\* The median of the non-empty sample a, as an exact quotient.
TrueMedian(a) ==
    LET s == Ascending(a)
        n == Len(a)
    IN  IF n % 2 = 1 THEN [num |-> s[n \div 2 + 1], den |-> 1]
        ELSE [num |-> s[n \div 2] + s[n \div 2 + 1], den |-> 2]

Sign(x) == IF x < 0 THEN -1 ELSE IF x = 0 THEN 0 ELSE 1

\* modes[0..count-1] of a returned result.
Modes(r) == SubSeq(r.data, 1, r.count)

\* compare reports every neighbouring pair of p in order: a qsort that finds
\* nothing to move, as an insertion sort then does, leaves p as it is.
LeftAlone(p) == \A k \in 1..(Len(p) - 1) : NotAfter(p[k], p[k + 1], ub)

\* calculate_mode has returned to the caller.
ModeReturned == pc = "free_result"
\* calculate_median has returned to the caller.
MedianReturned == pc = "mode"
\* calculate_mean has returned to the caller.
MeanReturned == pc = "median"

\* ------------------------------------------------------------------ claims

\* C1: for every non-empty sample the result of calculate_mode has frequency
\* equal to the largest multiplicity of a value of the sample, and
\* modes[0..count-1] is, as a set, exactly the set of the values that occur
\* that often.  Stated for the calls in which no malloc failed and qsort left
\* the array in the order it was given.
C1_ModeIsExact ==
    (ModeReturned /\ Len(given) >= 1 /\ ~allocFailed.mode /\ qs.seq = given)
        => /\ result.frequency = MaxMultiplicity(given)
           /\ Range(Modes(result)) = TrueModes(given)

\* C2 as written: on every return of calculate_mode, a non-empty sample
\* gives count >= 1, modes non-NULL and frequency >= 1, and an empty sample
\* gives count = 0, modes = NULL and frequency = 0.
C2_EveryReturnPath ==
    ModeReturned =>
        IF Len(given) >= 1
        THEN result.count >= 1 /\ result.modes # "NULL" /\ result.frequency >= 1
        ELSE result.count = 0 /\ result.modes = "NULL" /\ result.frequency = 0

\* C2 amended: on every return of calculate_mode, a non-empty sample with no
\* malloc of the call failing gives count >= 1, modes non-NULL and
\* frequency >= 1; an empty sample, or a failed malloc, gives count = 0,
\* modes = NULL and frequency = 0.
C2_ReturnPaths ==
    ModeReturned =>
        IF Len(given) >= 1 /\ ~allocFailed.mode
        THEN result.count >= 1 /\ result.modes # "NULL" /\ result.frequency >= 1
        ELSE result.count = 0 /\ result.modes = "NULL" /\ result.frequency = 0

C2_Witness ==
    /\ ModeReturned
    /\ Len(given) >= 2
    /\ ~allocFailed.mode
    /\ result.count >= 2
    /\ result.modes = "heap"

\* C3: for every non-empty sample calculate_median returns the median of the
\* ascending sample: the middle element when size is odd, the exact sum of
\* the two middle elements over 2 when size is even.  Stated for the calls
\* in which malloc succeeded and qsort left the copy ascending.
C3_MedianIsExact ==
    (MedianReturned /\ Len(given) >= 1 /\ ~allocFailed.median
        /\ qs.seq = Ascending(given))
        => median = TrueMedian(given)

\* C4: for every non-empty sample calculate_mean returns sum / size where
\* the accumulator holds the exact sum of the elements after the loop.
C4_MeanIsExact ==
    (MeanReturned /\ Len(given) >= 1)
        => mean = [num |-> TrueSum(given), den |-> Len(given)]

\* Each calculator's result in a later round against its result in round 1.
SecondCallsAgree(sameAllocations) ==
    /\ (round >= 2 /\ pc \in {"median", "median_select"}) => mean = first.mean
    /\ (round >= 2 /\ MedianReturned
            /\ (sameAllocations => allocFailed.median = first.allocFailed.median))
          => median = first.median
    /\ (round >= 2 /\ ModeReturned
            /\ (sameAllocations => allocFailed.mode = first.allocFailed.mode))
          => result = first.result

\* C5 as written: the caller's array holds the same values in the same
\* positions after every call, and a second call of a calculator returns
\* what the first returned.
C5_UnchangedAndIdempotent == arr = given /\ SecondCallsAgree(FALSE)

\* C5 amended: the caller's array holds the same values in the same
\* positions after every call, and a second call of a calculator returns
\* what the first returned provided a malloc failed in both calls or in
\* neither.
C5_UnchangedAndRepeatable == arr = given /\ SecondCallsAgree(TRUE)

C5_Witness ==
    /\ round = 2
    /\ ModeReturned
    /\ ~allocFailed.mode /\ ~first.allocFailed.mode
    /\ ~allocFailed.median /\ ~first.allocFailed.median
    /\ Len(given) >= 2
    /\ qs.seq # given
    /\ result.count >= 1
    /\ result = first.result
    /\ arr = given

\* C6: calculate_mean and calculate_median return on every permutation of
\* the sample what they return on the sample.  Stated for a sample that
\* qsort left as given, with malloc succeeding, against the permutations
\* that qsort leaves as they are.
C6_PermutationInvariant ==
    (MedianReturned /\ ~allocFailed.median /\ Len(given) >= 1 /\ qs.seq = given)
        => \A p \in PermSeqs(given) :
              /\ LET m == calculate_mean(p, longBits, ub)
                 IN  ~m.trap /\ m.val = mean
              /\ LeftAlone(p) =>
                    LET m == MedianOf(p, ub) IN ~m.trap /\ m.val = median

\* C7: when calculate_median or calculate_mode returns, every scratch buffer
\* the call allocated has been freed exactly once; after calculate_median no
\* allocation is live, after calculate_mode only result.modes is.
C7_ScratchFreed ==
    /\ MedianReturned =>
          /\ heap.live = {}
          /\ heap.frees = heap.allocs
          /\ heap.allocs["sorted_arr"] <= 1
          /\ heap.allocs["temp_modes"] = 0
    /\ ModeReturned =>
          /\ heap.live = IF result.modes = "NULL" THEN {} ELSE {"result.modes"}
          /\ \A b \in {"sorted_arr", "temp_modes"} :
                heap.frees[b] = heap.allocs[b] /\ heap.allocs[b] <= 1
          /\ heap.frees["result.modes"] = 0

C7_Witness ==
    /\ ModeReturned
    /\ allocFailed.mode
    /\ heap.allocs["sorted_arr"] = 1
    /\ heap.frees["sorted_arr"] = 1
    /\ heap.allocs["temp_modes"] = 0
    /\ heap.live = {}

\* C8: modes[0..count-1] is strictly ascending and count is the number of
\* distinct values tied for the highest frequency.  Stated for the calls in
\* which no malloc failed and qsort left the array in the order it was given.
C8_ModesAscending ==
    (ModeReturned /\ ~allocFailed.mode /\ Len(given) >= 1 /\ qs.seq = given)
        => /\ IsStrictlyAscending(Modes(result))
           /\ result.count = Cardinality(TrueModes(given))

\* C9: compare orders every pair of int values numerically (negative exactly
\* when a < b, zero exactly when a = b, positive exactly when a > b), so the
\* copy qsort has sorted is ascending.  Stated for the values of the sample
\* once qsort has returned in calculate_median.
C9_CompareIsNumeric ==
    pc = "median_select"
        => /\ \A x, y \in Range(given) :
                LET c == compare(x, y, ub)
                IN  ~c.trap /\ Sign(c.val) = Sign(x - y)
           /\ IsAscending(sorted_arr)

\* C10: in the second pass of calculate_mode every store into temp_modes has
\* 0 <= mode_count < size, every read of sorted_arr has 0 <= i < size, the
\* pass ends with 1 <= mode_count <= size, and the elements copied into
\* result.modes have all been written.
C10_Pass2InBounds ==
    /\ ~oob
    /\ pc = "pass2" =>
          /\ Len(temp_modes) = size /\ Len(sorted_arr) = size
          /\ 1 <= i /\ i <= size
          /\ temp_init = 0..(mode_count - 1)
    /\ Pass2Stores => (0 <= mode_count /\ mode_count < size)
    /\ pc = "package" =>
          /\ 1 <= mode_count /\ mode_count <= size
          /\ temp_init = 0..(mode_count - 1)
    /\ (ModeReturned /\ result.modes # "NULL") =>
          /\ result.init = 0..(result.count - 1)
          /\ Len(result.data) = result.count

C10_Witness ==
    /\ pc = "package"
    /\ size >= 2
    /\ mode_count = size
    /\ temp_init = 0..(size - 1)

==========================================================================
